---- MODULE Spec2Model ----
(***************************************************************************)
(* PKI-based 2FA microservice: the /decrypt-seed, /generate-2fa and        *)
(* /verify-2fa handlers of src/src/app.py, the seed file they share, the   *)
(* TOTP and RSA helpers of src/src/crypto_utils.py and the proof script    *)
(* scripts/generate_proof.py.                                              *)
(*                                                                         *)
(* Text is a sequence of one-character strings.  Bytes are a sequence of   *)
(* numbers 0..255.  An RSA ciphertext or signature is a record naming the  *)
(* key and the payload: the library's arithmetic is not modelled, its      *)
(* length rules and its failure cases are.                                 *)
(***************************************************************************)
EXTENDS Integers, Sequences, FiniteSets, TLC

-----------------------------------------------------------------------------
(* config.py *)

RSA_KEY_SIZE == 4096
TOTP_PERIOD == 30
TOTP_DIGITS == 6
TOTP_VALID_WINDOW == 1

(* crypto_utils.py: the seed is a 64-character hex string *)
SEED_LEN == 64
(* digest size in bytes of hashes.SHA256(), the OAEP hash *)
SHA256_LEN == 32

-----------------------------------------------------------------------------
(* Bounds of the model *)

\* first time step of the modelled clock (the wall clock is far from 1970)
MinStep == 2
\* the clock runs over MinStep*30 .. MinStep*30 + ClockSpan
ClockSpan == 32
\* the verify requests carry the codes of steps MinStep-2 .. MinStep+CodeSteps
CodeSteps == 3

MinNow == MinStep * TOTP_PERIOD
MaxNow == MinNow + ClockSpan

-----------------------------------------------------------------------------
(* Text helpers *)

RECURSIVE Rep(_, _)
Rep(unit, n) == IF n = 0 THEN << >> ELSE unit \o Rep(unit, n - 1)

\* the value of a lower-case hex digit
HexValue ==
    "0" :> 0 @@ "1" :> 1 @@ "2" :> 2 @@ "3" :> 3 @@ "4" :> 4 @@ "5" :> 5
    @@ "6" :> 6 @@ "7" :> 7 @@ "8" :> 8 @@ "9" :> 9 @@ "a" :> 10 @@ "b" :> 11
    @@ "c" :> 12 @@ "d" :> 13 @@ "e" :> 14 @@ "f" :> 15

\* str.lower() on the letters the model uses
LowerOf ==
    "A" :> "a" @@ "B" :> "b" @@ "C" :> "c" @@ "D" :> "d" @@ "E" :> "e"
    @@ "F" :> "f" @@ "G" :> "g"

Lower(c) == IF c \in DOMAIN LowerOf THEN LowerOf[c] ELSE c

IsLowerHex(c) == c \in DOMAIN HexValue
IsHex(c) == IsLowerHex(Lower(c))
HexVal(c) == HexValue[Lower(c)]
IsSpace(c) == c \in {" ", "\n", "\t"}

\* str.strip(): leading and trailing whitespace removed
RECURSIVE LStrip(_)
LStrip(s) == IF s # << >> /\ IsSpace(Head(s)) THEN LStrip(Tail(s)) ELSE s
RECURSIVE RStrip(_)
RStrip(s) ==
    IF s # << >> /\ IsSpace(s[Len(s)]) THEN RStrip(SubSeq(s, 1, Len(s) - 1)) ELSE s
Strip(s) == RStrip(LStrip(s))

\* A value or an exception.  An exception has a type and a message; an
\* HTTPException has a status code and the error of its detail.
Ok(v) == [ok |-> TRUE, val |-> v]
Raise(e) == [ok |-> FALSE, exc |-> e]
Exc(type, msg) == [type |-> type, status |-> 0, error |-> msg]
HTTPException(status_code, error) ==
    [type |-> "HTTPException", status |-> status_code, error |-> error]

\* bytes.fromhex(): pairs of hex digits of either case, whitespace skipped
\* between the pairs; ValueError on anything else
RECURSIVE FromHexAt(_, _)
FromHexAt(s, i) ==
    IF i > Len(s) THEN Ok(<< >>)
    ELSE IF IsSpace(s[i]) THEN FromHexAt(s, i + 1)
    ELSE IF i = Len(s) \/ ~IsHex(s[i]) \/ ~IsHex(s[i + 1])
    THEN Raise(Exc("ValueError", "non-hexadecimal number found in fromhex()"))
    ELSE LET rest == FromHexAt(s, i + 2)
         IN  IF rest.ok
             THEN Ok(<<HexVal(s[i]) * 16 + HexVal(s[i + 1])>> \o rest.val)
             ELSE rest

FromHex(s) == FromHexAt(s, 1)

-----------------------------------------------------------------------------
(* Base32, as base64.b32encode writes it and pyotp reads it back *)

B32Alphabet ==
    <<"A","B","C","D","E","F","G","H","I","J","K","L","M","N","O","P",
      "Q","R","S","T","U","V","W","X","Y","Z","2","3","4","5","6","7">>

\* the five bits of a base32 symbol
B32Value ==
    "A" :> 0 @@ "B" :> 1 @@ "C" :> 2 @@ "D" :> 3 @@ "E" :> 4 @@ "F" :> 5
    @@ "G" :> 6 @@ "H" :> 7 @@ "I" :> 8 @@ "J" :> 9 @@ "K" :> 10 @@ "L" :> 11
    @@ "M" :> 12 @@ "N" :> 13 @@ "O" :> 14 @@ "P" :> 15 @@ "Q" :> 16 @@ "R" :> 17
    @@ "S" :> 18 @@ "T" :> 19 @@ "U" :> 20 @@ "V" :> 21 @@ "W" :> 22 @@ "X" :> 23
    @@ "Y" :> 24 @@ "Z" :> 25 @@ "2" :> 26 @@ "3" :> 27 @@ "4" :> 28 @@ "5" :> 29
    @@ "6" :> 30 @@ "7" :> 31

\* Pow2[n + 1] is 2^n
Pow2 == <<1, 2, 4, 8, 16, 32, 64, 128, 256, 512, 1024, 2048>>

\* element i of a sequence, 0 past its end
At0(nums, i) == IF i > Len(nums) THEN 0 ELSE nums[i]

\* base64.b32encode(bytes): the bits of the bytes, zeros appended, five bits
\* a symbol; "=" up to a multiple of eight symbols.  Symbol j starts o bits
\* into byte i and lies within the 16 bits of bytes i and i+1.
B32Encode(bytes) ==
    LET nsym == (8 * Len(bytes) + 4) \div 5
        npad == (8 - (nsym % 8)) % 8
        sym(j) == LET i == ((5 * (j - 1)) \div 8) + 1
                      o == (5 * (j - 1)) % 8
                  IN  ((256 * bytes[i] + At0(bytes, i + 1)) \div Pow2[12 - o]) % 32
    IN  [j \in 1..nsym |-> B32Alphabet[sym(j) + 1]] \o [j \in 1..npad |-> "="]

\* base64.b32decode of correctly padded text: the padding dropped, five bits
\* a symbol, whole bytes kept.  Byte b starts o bits into symbol j and lies
\* within the 15 bits of symbols j, j+1 and j+2.
B32Decode(text) ==
    LET data == SelectSeq(text, LAMBDA c : c # "=")
        nbytes == (5 * Len(data)) \div 8
        val(j) == IF j > Len(data) THEN 0 ELSE B32Value[data[j]]
        byte(b) == LET j == ((8 * (b - 1)) \div 5) + 1
                       o == (8 * (b - 1)) % 5
                   IN  ((1024 * val(j) + 32 * val(j + 1) + val(j + 2))
                           \div Pow2[8 - o]) % 256
    IN  [b \in 1..nbytes |-> byte(b)]

\* hex_to_base32(hex_seed)
hex_to_base32(hex_seed) ==
    LET seed_bytes == FromHex(hex_seed)
    IN  IF seed_bytes.ok THEN Ok(B32Encode(seed_bytes.val)) ELSE seed_bytes

-----------------------------------------------------------------------------
(* TOTP (pyotp.TOTP over the base32 seed, SHA-1, 30 s, 6 digits) *)

RECURSIVE WeightedSum(_, _)
WeightedSum(bytes, i) ==
    IF i > Len(bytes) THEN 0 ELSE i * bytes[i] + WeightedSum(bytes, i + 1)

\* pyotp's generate_otp(counter): HMAC-SHA1 of the counter under the key,
\* dynamically truncated, modulo 10^digits.  The digest is a stand-in: a
\* fixed function of key and counter in which different counters can give the
\* same code, as truncated digests do.
Hotp(key, counter) ==
    IF counter < 0 THEN Raise(Exc("ValueError", "input must be positive integer"))
    ELSE Ok(((WeightedSum(key, 1) % 9973) * 1009
             + ((counter * counter) % 7) * 100003) % 1000000)

\* Pow10[n + 1] is 10^n
Pow10 == <<1, 10, 100, 1000, 10000, 100000, 1000000>>

Digit == <<"0", "1", "2", "3", "4", "5", "6", "7", "8", "9">>

\* the code as text: TOTP_DIGITS decimal digits, zero-padded on the left
CodeText(n) ==
    [i \in 1..TOTP_DIGITS |-> Digit[((n \div Pow10[TOTP_DIGITS - i + 1]) % 10) + 1]]

TimeCodeRounded(t) == (t + (TOTP_PERIOD \div 2)) \div TOTP_PERIOD

\* pyotp's timecode(for_time)
TimeCode(t) == t \div TOTP_PERIOD

\* pyotp's TOTP(base32_seed).at(t, offset): byte_secret is the base32 seed
\* decoded
TotpAt(base32_seed, t, offset) ==
    LET otp == Hotp(B32Decode(base32_seed), TimeCode(t) + offset)
    IN  IF otp.ok THEN Ok(CodeText(otp.val)) ELSE otp

\* generate_totp_code(hex_seed), the clock reading t
generate_totp_code(hex_seed, t) ==
    LET base32_seed == hex_to_base32(hex_seed)
    IN  IF base32_seed.ok THEN TotpAt(base32_seed.val, t, 0) ELSE base32_seed

get_totp_remaining_seconds_0_29(t) == (TOTP_PERIOD - 1) - (t % TOTP_PERIOD)

\* get_totp_remaining_seconds(), the clock reading t
get_totp_remaining_seconds(t) == TOTP_PERIOD - (t % TOTP_PERIOD)

\* pyotp's TOTP.verify(code, valid_window): the offsets -w..w in order, the
\* first exception or the first match ending the loop
RECURSIVE VerifyFrom(_, _, _, _, _)
VerifyFrom(base32_seed, code, t, i, valid_window) ==
    IF i > valid_window THEN Ok(FALSE)
    ELSE LET at == TotpAt(base32_seed, t, i)
         IN  IF ~at.ok THEN at
             ELSE IF at.val = code THEN Ok(TRUE)
             ELSE VerifyFrom(base32_seed, code, t, i + 1, valid_window)

verify_totp_code_no_window(hex_seed, code, t) ==
    LET base32_seed == hex_to_base32(hex_seed)
    IN  IF base32_seed.ok
        THEN VerifyFrom(base32_seed.val, code, t, 0, 0)
        ELSE base32_seed

\* verify_totp_code(hex_seed, code), the clock reading t
verify_totp_code(hex_seed, code, t) ==
    LET base32_seed == hex_to_base32(hex_seed)
    IN  IF base32_seed.ok
        THEN VerifyFrom(base32_seed.val, code, t, 0 - TOTP_VALID_WINDOW,
                        TOTP_VALID_WINDOW)
        ELSE base32_seed

-----------------------------------------------------------------------------
(* RSA (cryptography.hazmat): keys, OAEP-SHA256 and PSS-SHA256 *)

\* A key pair is named by its owner and has a modulus size; the private and
\* the public half carry the same name.
RsaKey(id, bits) == [id |-> id, bits |-> bits]

\* the modulus size in bytes
KeyBytes(key) == (key.bits + 7) \div 8

\* Bytes at the cryptographic boundary: an OAEP ciphertext names the public
\* key it was made with and its plaintext; intact is FALSE once a byte of it
\* was changed.  Other bytes (pub "none") only have a length.
RawBytes(n) == [pub |-> "none", pt |-> << >>, intact |-> FALSE, len |-> n]

\* OAEP: the longest plaintext is k - 2 hLen - 2 bytes
OaepMaxLen(key) == KeyBytes(key) - 2 * SHA256_LEN - 2

\* public_key.encrypt(data, OAEP(MGF1(SHA256), SHA256, None))
RsaEncrypt(data, public_key) ==
    IF Len(data) > OaepMaxLen(public_key)
    THEN Raise(Exc("ValueError", "Encryption failed"))
    ELSE Ok([pub |-> public_key.id, pt |-> data, intact |-> TRUE,
             len |-> KeyBytes(public_key)])

\* private_key.decrypt(ciphertext, OAEP(MGF1(SHA256), SHA256, None))
RsaDecrypt(ciphertext, private_key) ==
    IF ciphertext.len # KeyBytes(private_key)
    THEN Raise(Exc("ValueError", "Ciphertext length must be equal to key size"))
    ELSE IF ciphertext.pub # private_key.id \/ ~ciphertext.intact
    THEN Raise(Exc("ValueError", "Decryption failed"))
    ELSE Ok(ciphertext.pt)

\* private_key.sign(message, PSS(MGF1(SHA256), MAX_LENGTH), SHA256): as many
\* bytes as the modulus; the salt is random, the bytes a stand-in
RsaSign(message_bytes, private_key, salt) ==
    [i \in 1..KeyBytes(private_key) |-> (Len(message_bytes) + salt + i) % 256]

\* sign_message(message, private_key); the text is ASCII, its UTF-8 bytes
\* are its characters
sign_message(message, private_key, salt) == RsaSign(message, private_key, salt)

\* encrypt_with_public_key(data, public_key)
encrypt_with_public_key(data, public_key) == RsaEncrypt(data, public_key)

-----------------------------------------------------------------------------
(* Base64 text at the transport boundary.  The text is a sequence of tokens:
   "data" is the run of characters that encodes one ciphertext, "char" one
   more character of the base64 alphabet, "junk" one character outside it. *)

B64Tok(kind, ct) == [t |-> kind, ct |-> ct]
B64Char == B64Tok("char", RawBytes(0))
B64Junk == B64Tok("junk", RawBytes(0))

\* base64.b64encode(ciphertext).decode('utf-8')
B64Encode(ct) == <<B64Tok("data", ct)>>

RECURSIVE SumLen(_)
SumLen(toks) == IF toks = << >> THEN 0 ELSE Head(toks).ct.len + SumLen(Tail(toks))

\* base64.b64decode(text), validate=False: the characters outside the
\* alphabet are discarded, then the rest must be whole groups of four
b64decode(text) ==
    LET kept   == SelectSeq(text, LAMBDA k : k.t # "junk")
        data   == SelectSeq(kept, LAMBDA k : k.t = "data")
        nchars == Len(kept) - Len(data)
    IN  IF nchars % 4 # 0 THEN Raise(Exc("binascii.Error", "Incorrect padding"))
        ELSE IF Len(data) = 1 /\ nchars = 0 THEN Ok(data[1].ct)
        ELSE Ok(RawBytes(SumLen(data) + 3 * (nchars \div 4)))

\* a byte that is no UTF-8 text
BadByte == "0xff"

\* bytes.decode('utf-8')
Utf8Decode(bytes) ==
    IF \E i \in 1..Len(bytes) : bytes[i] = BadByte
    THEN Raise(Exc("UnicodeDecodeError", "invalid start byte"))
    ELSE Ok(bytes)

\* decrypt_seed(encrypted_seed_b64, private_key)
decrypt_seed(encrypted_seed_b64, private_key) ==
    LET encrypted_seed_bytes == b64decode(encrypted_seed_b64)
        decrypted_bytes == RsaDecrypt(encrypted_seed_bytes.val, private_key)
        hex_seed == Utf8Decode(decrypted_bytes.val)
    IN  IF ~encrypted_seed_bytes.ok THEN encrypted_seed_bytes
        ELSE IF ~decrypted_bytes.ok THEN decrypted_bytes
        ELSE IF ~hex_seed.ok THEN hex_seed
        ELSE IF Len(hex_seed.val) # SEED_LEN
        THEN Raise(Exc("ValueError", "Invalid seed length"))
        ELSE IF \E i \in 1..Len(hex_seed.val) : Lower(hex_seed.val[i]) \notin DOMAIN HexValue
        THEN Raise(Exc("ValueError", "Seed contains non-hexadecimal characters"))
        ELSE hex_seed

-----------------------------------------------------------------------------
(* The service (app.py) *)

VARIABLES
    student_private_key,  \* the key loaded at import, NoKey if loading failed
    seed_file,            \* SEED_FILE_PATH: whether it exists, and its content
    now,                  \* the wall clock, in seconds
    pc,                   \* the position of each handler, "idle" between requests
    local,                \* the local variables of each handler
    resp,                 \* the last response sent
    trace,                \* what the request of the last response read and raised
    last_ok,              \* the seed sent in the last /decrypt-seed answered 200
    proof                 \* the run of scripts/generate_proof.py

vars == <<student_private_key, seed_file, now, pc, local, resp, trace, last_ok, proof>>

Handlers == {"decrypt", "generate", "verify"}

NoKey == RsaKey("None", 0)
StudentKey == RsaKey("student", RSA_KEY_SIZE)
OtherKey == RsaKey("other", RSA_KEY_SIZE)

NoSeed == [some |-> FALSE, val |-> << >>]
SomeSeed(s) == [some |-> TRUE, val |-> s]

NoFile == [exists |-> FALSE, content |-> << >>]
File(content) == [exists |-> TRUE, content |-> content]

NoExc == Exc("", "")

NoLocal ==
    [enc_in |-> << >>, code_in |-> << >>, hex_seed |-> << >>, code |-> << >>,
     t_code |-> 0, prev |-> NoSeed, pending |-> NoSeed]

NoResp ==
    [op |-> "none", status |-> 0, error |-> "", body_status |-> "", code |-> << >>,
     valid_for |-> 0, valid |-> FALSE]

NoTrace ==
    [op |-> "none", enc_in |-> << >>, code_in |-> << >>, hex_seed |-> << >>,
     t_code |-> 0, t_now |-> 0, exc |-> NoExc]

\* the body of an error response: {"detail": {"error": ...}} with the status
ErrorResp(op, e) == [NoResp EXCEPT !.op = op, !.status = e.status, !.error = e.error]

(* The seeds and other plaintexts the issuer side may encrypt *)
SeedA == Rep(<<"a", "1">>, SEED_LEN \div 2)
SeedB == Rep(<<"0", "f">>, SEED_LEN \div 2)
SeedU == Rep(<<"A", "1">>, SEED_LEN \div 2)
Plaintexts ==
    { SeedA, SeedB, SeedU,
      Rep(<<"a", "1">>, (SEED_LEN \div 2) - 1),
      Rep(<<"a", "1">>, (SEED_LEN \div 2) + 1),
      Rep(<<"g", "1">>, SEED_LEN \div 2),
      << >>,
      Rep(<<BadByte>>, SEED_LEN) }

\* the bytes of a ciphertext with one byte changed
Corrupted(ct) == [ct EXCEPT !.intact = FALSE]

\* the encrypted_seed fields of the /decrypt-seed requests
EncSeedInputs ==
    { B64Encode(RsaEncrypt(p, StudentKey).val) : p \in Plaintexts }
    \cup { B64Encode(RsaEncrypt(SeedA, OtherKey).val),
           B64Encode(Corrupted(RsaEncrypt(SeedA, StudentKey).val)),
           <<B64Junk>> \o B64Encode(RsaEncrypt(SeedB, StudentKey).val),
           <<B64Junk, B64Junk>>,
           <<B64Char>>,
           B64Encode(RsaEncrypt(SeedA, StudentKey).val) \o <<B64Char, B64Char>>,
           << >> }

\* the plaintext the issuer encrypted into an encrypted_seed
RequestPlaintext(enc) == SelectSeq(enc, LAMBDA k : k.t = "data")[1].ct.pt

\* the code fields of the /verify-2fa requests
CodeInputs ==
    { generate_totp_code(SeedA, k * TOTP_PERIOD).val :
          k \in (MinStep - 2)..(MinStep + CodeSteps) }
    \cup { generate_totp_code(SeedB, MinStep * TOTP_PERIOD).val,
           <<"1", "2", "3", "4", "5">>,
           << >> }

-----------------------------------------------------------------------------
(* Scheduling.  The three handlers are coroutines (async def) of one asyncio
   event loop, started by uvicorn.run(app): none of them awaits, so a handler
   that has started runs to its response before another one starts.  Time
   passes between any two steps: now is the last reading of the clock. *)

LoopFreeThreaded(h) == pc[h] = "idle"

\* the event loop can start handler h
LoopFree(h) == \A g \in Handlers : pc[g] = "idle"

Respond(h, r, tr) ==
    /\ resp' = r
    /\ trace' = tr
    /\ pc' = [pc EXCEPT ![h] = "idle"]
    /\ local' = [local EXCEPT ![h] = NoLocal]

\* a request begins: resp and trace are those of the last request, none
\* while that request is being handled
Begin(h, label, l) ==
    /\ pc' = [pc EXCEPT ![h] = label]
    /\ local' = [local EXCEPT ![h] = l]
    /\ resp' = NoResp
    /\ trace' = NoTrace

Goto(h, label, l) ==
    /\ pc' = [pc EXCEPT ![h] = label]
    /\ local' = [local EXCEPT ![h] = l]
    /\ UNCHANGED <<resp, trace>>

\* time.time() and datetime.now(): a reading t, no earlier than the last one
ClockRead(t) ==
    /\ t \in now..MaxNow
    /\ now' = t

-----------------------------------------------------------------------------
(* POST /decrypt-seed *)

DecryptOnErrorReraise(e) ==
    IF e.type = "HTTPException" THEN e ELSE HTTPException(500, "Decryption failed")

\* except Exception as e: raise HTTPException(500, {"error": "Decryption failed"})
DecryptOnError(e) == HTTPException(500, "Decryption failed")

OpenAppend(file) == File(file.content)

\* open(SEED_FILE_PATH, 'w'): the file is created, or truncated
OpenWrite(file) == File(<< >>)

\* f.write(hex_seed) and the close that flushes it
WriteClose(file, data) == File(file.content \o data)

\* the key check and decrypt_seed(request.encrypted_seed, student_private_key)
DecryptStart(enc) ==
    /\ LoopFree("decrypt")
    /\ pc["decrypt"] = "idle"
    /\ LET r == IF student_private_key = NoKey
                THEN Raise(HTTPException(500, "Private key not loaded"))
                ELSE decrypt_seed(enc, student_private_key)
           tr == [NoTrace EXCEPT !.op = "decrypt", !.enc_in = enc, !.t_now = now]
       IN  IF r.ok
           THEN Begin("decrypt", "open",
                     [NoLocal EXCEPT !.enc_in = enc, !.hex_seed = r.val])
           ELSE Respond("decrypt", ErrorResp("decrypt", DecryptOnError(r.exc)),
                        [tr EXCEPT !.exc = r.exc])
    /\ UNCHANGED <<student_private_key, seed_file, now, last_ok, proof>>

\* os.makedirs(...) and open(SEED_FILE_PATH, 'w')
DecryptOpen ==
    /\ pc["decrypt"] = "open"
    /\ seed_file' = OpenWrite(seed_file)
    /\ Goto("decrypt", "write", local["decrypt"])
    /\ UNCHANGED <<student_private_key, now, last_ok, proof>>

\* f.write(hex_seed), the end of the with block, return {"status": "ok"}
DecryptWrite ==
    /\ pc["decrypt"] = "write"
    /\ seed_file' = WriteClose(seed_file, local["decrypt"].hex_seed)
    /\ last_ok' = SomeSeed(RequestPlaintext(local["decrypt"].enc_in))
    /\ Respond("decrypt",
               [NoResp EXCEPT !.op = "decrypt", !.status = 200, !.body_status = "ok"],
               [NoTrace EXCEPT !.op = "decrypt", !.enc_in = local["decrypt"].enc_in,
                               !.hex_seed = local["decrypt"].hex_seed, !.t_now = now])
    /\ UNCHANGED <<student_private_key, now, proof>>

-----------------------------------------------------------------------------
(* GET /generate-2fa and POST /verify-2fa *)

\* except HTTPException: raise
\* except Exception: raise HTTPException(500, {"error": "Seed not decrypted yet"})
TotpOnError(e) ==
    IF e.type = "HTTPException" THEN e ELSE HTTPException(500, "Seed not decrypted yet")

\* the seed a /decrypt-seed handler is writing, if one is
PendingSeed ==
    IF pc["decrypt"] \in {"open", "write"}
    THEN SomeSeed(local["decrypt"].hex_seed)
    ELSE last_ok

\* with open(SEED_FILE_PATH, 'r') as f: hex_seed = f.read().strip()
ReadSeed(h, next) ==
    /\ pc[h] = "read"
    /\ Goto(h, next, [local[h] EXCEPT !.hex_seed = Strip(seed_file.content),
                                      !.prev = last_ok, !.pending = PendingSeed])
    /\ UNCHANGED <<student_private_key, seed_file, now, last_ok, proof>>

\* if not os.path.exists(SEED_FILE_PATH): raise HTTPException(500, ...)
GenerateStart ==
    /\ LoopFree("generate")
    /\ pc["generate"] = "idle"
    /\ IF ~seed_file.exists
       THEN LET e == HTTPException(500, "Seed not decrypted yet")
            IN  Respond("generate", ErrorResp("generate", TotpOnError(e)),
                        [NoTrace EXCEPT !.op = "generate", !.exc = e, !.t_now = now])
       ELSE Begin("generate", "read", NoLocal)
    /\ UNCHANGED <<student_private_key, seed_file, now, last_ok, proof>>

GenerateRead == ReadSeed("generate", "code")

\* code = generate_totp_code(hex_seed)
GenerateCode(t) ==
    /\ pc["generate"] = "code"
    /\ ClockRead(t)
    /\ LET l == local["generate"]
           r == generate_totp_code(l.hex_seed, t)
       IN  IF r.ok
           THEN Goto("generate", "remaining", [l EXCEPT !.code = r.val, !.t_code = t])
           ELSE Respond("generate", ErrorResp("generate", TotpOnError(r.exc)),
                        [NoTrace EXCEPT !.op = "generate", !.hex_seed = l.hex_seed,
                                        !.exc = r.exc, !.t_code = t, !.t_now = t])
    /\ UNCHANGED <<student_private_key, seed_file, last_ok, proof>>

\* valid_for = get_totp_remaining_seconds(); return {"code", "valid_for"}
GenerateRemaining(t) ==
    /\ pc["generate"] = "remaining"
    /\ ClockRead(t)
    /\ LET l == local["generate"]
       IN  Respond("generate",
                   [NoResp EXCEPT !.op = "generate", !.status = 200, !.code = l.code,
                                  !.valid_for = get_totp_remaining_seconds(t)],
                   [NoTrace EXCEPT !.op = "generate", !.hex_seed = l.hex_seed,
                                   !.t_code = l.t_code, !.t_now = t])
    /\ UNCHANGED <<student_private_key, seed_file, last_ok, proof>>

\* if not request.code: 400; if not os.path.exists(SEED_FILE_PATH): 500
VerifyStart(code) ==
    /\ LoopFree("verify")
    /\ pc["verify"] = "idle"
    /\ LET tr == [NoTrace EXCEPT !.op = "verify", !.code_in = code, !.t_now = now]
       IN  IF code = << >>
           THEN LET e == HTTPException(400, "Missing code")
                IN  Respond("verify", ErrorResp("verify", TotpOnError(e)),
                            [tr EXCEPT !.exc = e])
           ELSE IF ~seed_file.exists
           THEN LET e == HTTPException(500, "Seed not decrypted yet")
                IN  Respond("verify", ErrorResp("verify", TotpOnError(e)),
                            [tr EXCEPT !.exc = e])
           ELSE Begin("verify", "read", [NoLocal EXCEPT !.code_in = code])
    /\ UNCHANGED <<student_private_key, seed_file, now, last_ok, proof>>

VerifyRead == ReadSeed("verify", "check")

\* is_valid = verify_totp_code(hex_seed, request.code); return {"valid": is_valid}
VerifyCheck(t) ==
    /\ pc["verify"] = "check"
    /\ ClockRead(t)
    /\ LET l == local["verify"]
           r == verify_totp_code(l.hex_seed, l.code_in, t)
           tr == [NoTrace EXCEPT !.op = "verify", !.code_in = l.code_in,
                                 !.hex_seed = l.hex_seed, !.t_code = t, !.t_now = t]
       IN  IF r.ok
           THEN Respond("verify",
                        [NoResp EXCEPT !.op = "verify", !.status = 200, !.valid = r.val],
                        tr)
           ELSE Respond("verify", ErrorResp("verify", TotpOnError(r.exc)),
                        [tr EXCEPT !.exc = r.exc])
    /\ UNCHANGED <<student_private_key, seed_file, last_ok, proof>>

-----------------------------------------------------------------------------
(* scripts/generate_proof.py *)

\* the salts PSS may draw are 0..MaxSalt
MaxSalt == 1

KeySizes == {RSA_KEY_SIZE \div 4, RSA_KEY_SIZE \div 2, RSA_KEY_SIZE, RSA_KEY_SIZE * 2}

CommitHashes == {Rep(<<"a", "b">>, 20), Rep(<<"0", "1">>, 20)}

ProofOff ==
    [pc |-> "off", git_ok |-> FALSE, commit_hash |-> << >>, holder |-> NoKey,
     issuer |-> NoKey, signature |-> << >>, result |-> "", out |-> << >>]

\* commit_hash = get_commit_hash(): sys.exit(1) when git fails
ProofGetHash ==
    /\ proof.pc = "start"
    /\ proof' = IF proof.git_ok
                THEN [proof EXCEPT !.pc = "sign"]
                ELSE [proof EXCEPT !.pc = "done", !.result = "exit 1"]
    /\ UNCHANGED <<student_private_key, seed_file, now, pc, local, resp, trace, last_ok>>

\* student_private.pem missing: sys.exit(1); else load it and
\* signature = sign_message(commit_hash, student_private_key)
ProofSign(salt) ==
    /\ proof.pc = "sign"
    /\ proof' = IF proof.holder = NoKey
                THEN [proof EXCEPT !.pc = "done", !.result = "exit 1"]
                ELSE [proof EXCEPT !.pc = "encrypt",
                         !.signature = sign_message(proof.commit_hash, proof.holder, salt)]
    /\ UNCHANGED <<student_private_key, seed_file, now, pc, local, resp, trace, last_ok>>

\* instructor_public.pem missing: sys.exit(1); else load it,
\* encrypted_signature = encrypt_with_public_key(signature, instructor_public_key),
\* base64 and print; an exception is not caught
ProofEncrypt ==
    /\ proof.pc = "encrypt"
    /\ LET r == encrypt_with_public_key(proof.signature, proof.issuer)
       IN  proof' = IF proof.issuer = NoKey
                    THEN [proof EXCEPT !.pc = "done", !.result = "exit 1"]
                    ELSE IF r.ok
                    THEN [proof EXCEPT !.pc = "done", !.result = "printed",
                                       !.out = B64Encode(r.val)]
                    ELSE [proof EXCEPT !.pc = "done", !.result = r.exc.type]
    /\ UNCHANGED <<student_private_key, seed_file, now, pc, local, resp, trace, last_ok>>

-----------------------------------------------------------------------------
(* Specifications *)

InitService ==
    /\ now = MinNow
    /\ pc = [h \in Handlers |-> "idle"]
    /\ local = [h \in Handlers |-> NoLocal]
    /\ resp = NoResp
    /\ trace = NoTrace
    /\ last_ok = NoSeed
    /\ proof = ProofOff

\* the service starts with the key loaded or not, and no seed file
Init ==
    /\ student_private_key \in {NoKey, StudentKey}
    /\ seed_file = NoFile
    /\ InitService

Next ==
    \/ \E enc \in EncSeedInputs : DecryptStart(enc)
    \/ DecryptOpen
    \/ DecryptWrite
    \/ GenerateStart
    \/ GenerateRead
    \/ \E t \in MinNow..MaxNow : GenerateCode(t)
    \/ \E t \in MinNow..MaxNow : GenerateRemaining(t)
    \/ \E code \in CodeInputs : VerifyStart(code)
    \/ VerifyRead
    \/ \E t \in MinNow..MaxNow : VerifyCheck(t)

Spec == Init /\ [][Next]_vars

\* what SEED_FILE_PATH may hold when the service starts: the file is on a
\* volume that outlives the process and that other programs can write
StoredFiles ==
    { NoFile, File(SeedA), File(SeedA \o <<"\n">>), File(<< >>), File(<<"a">>),
      File(Rep(<<"g", "1">>, SEED_LEN \div 2)),
      File(Rep(<<"a", "1">>, (SEED_LEN \div 2) - 1)) }

InitStore ==
    /\ student_private_key \in {NoKey, StudentKey}
    /\ seed_file \in StoredFiles
    /\ InitService

NextStore ==
    \/ GenerateStart
    \/ GenerateRead
    \/ \E t \in MinNow..MaxNow : GenerateCode(t)
    \/ \E t \in MinNow..MaxNow : GenerateRemaining(t)
    \/ \E code \in CodeInputs : VerifyStart(code)
    \/ VerifyRead
    \/ \E t \in MinNow..MaxNow : VerifyCheck(t)

SpecStore == InitStore /\ [][NextStore]_vars

\* one run of the script: the commit hash git gives and the two key files
InitProof ==
    /\ student_private_key = NoKey
    /\ seed_file = NoFile
    /\ now = MinNow
    /\ pc = [h \in Handlers |-> "idle"]
    /\ local = [h \in Handlers |-> NoLocal]
    /\ resp = NoResp
    /\ trace = NoTrace
    /\ last_ok = NoSeed
    /\ \E g \in BOOLEAN, c \in CommitHashes,
          hb \in KeySizes \cup {0}, ib \in KeySizes \cup {0} :
          proof = [ProofOff EXCEPT !.pc = "start", !.git_ok = g, !.commit_hash = c,
                      !.holder = IF hb = 0 THEN NoKey ELSE RsaKey("student", hb),
                      !.issuer = IF ib = 0 THEN NoKey ELSE RsaKey("instructor", ib)]

NextProof ==
    \/ ProofGetHash
    \/ \E salt \in 0..MaxSalt : ProofSign(salt)
    \/ ProofEncrypt

SpecProof == InitProof /\ [][NextProof]_vars

-----------------------------------------------------------------------------
(* Properties *)

Idle == \A h \in Handlers : pc[h] = "idle"

Readers == {"generate", "verify"}
HasRead(h) == pc[h] \in {"code", "remaining", "check"}

\* the code of the seed text s at time step k: HOTP of the bytes the hex
\* digits spell
CodeOf(s, k) == CodeText(Hotp(FromHex(s).val, k).val)

\* C1: a handler of /generate-2fa or /verify-2fa that has read the seed file
\* holds a complete seed: the one persisted before, or the one a
\* /decrypt-seed handler is persisting; never an empty or partial text.
C1_NoTornRead ==
    \A h \in Readers :
        HasRead(h) =>
            LET l == local[h]
            IN  \/ l.prev.some /\ l.hex_seed = l.prev.val
                \/ l.pending.some /\ l.hex_seed = l.pending.val

\* a reader has read the seed of the last successful /decrypt-seed
C1_Witness ==
    \E h \in Readers :
        /\ HasRead(h)
        /\ last_ok.some
        /\ local[h].hex_seed = last_ok.val
        /\ Len(local[h].hex_seed) = SEED_LEN

C4_NotFoundOnlyWhenAbsent ==
    (resp.op \in Readers /\ resp.status = 500 /\ resp.error = "Seed not decrypted yet")
        => ~seed_file.exists

\* C5: every failing /decrypt-seed is answered by the same response, whatever
\* made it fail.
C5_OneFailureResponse ==
    (resp.op = "decrypt" /\ resp.status # 200) =>
        resp = [NoResp EXCEPT !.op = "decrypt", !.status = 500,
                              !.error = "Decryption failed"]

\* the failure is the private key that was not loaded
C5_Witness ==
    /\ resp.op = "decrypt"
    /\ resp.status # 200
    /\ trace.exc = HTTPException(500, "Private key not loaded")

\* text that is not base64: a character outside the alphabet, or characters
\* that are no whole group of four
Malformed(enc) == \E i \in 1..Len(enc) : enc[i].t \in {"junk", "char"}

\* C6: a /decrypt-seed that fails on malformed base64 fails with the
\* encoding error (binascii.Error), not with the error of a decryption.
C6_EncodingErrorDistinct ==
    (trace.op = "decrypt" /\ resp.status # 200 /\ student_private_key # NoKey
        /\ Malformed(trace.enc_in))
        => trace.exc.type = "binascii.Error"

\* C7: between requests the seed file is absent or holds 64 characters, each
\* in 0-9a-f.
C7_SlotCanonical ==
    Idle =>
        \/ ~seed_file.exists
        \/ /\ Len(seed_file.content) = SEED_LEN
           /\ \A i \in 1..Len(seed_file.content) : IsLowerHex(seed_file.content[i])

\* C8: between requests, loading the seed gives the seed sent in the last
\* successful /decrypt-seed (no file if there was none); a request that
\* failed changed nothing.
C8_LastSuccessfulSeed ==
    Idle =>
        /\ seed_file.exists = last_ok.some
        /\ seed_file.exists => Strip(seed_file.content) = last_ok.val

\* a /decrypt-seed has failed after one that succeeded
C8_Witness ==
    /\ Idle
    /\ resp.op = "decrypt"
    /\ resp.status = 500
    /\ last_ok.some
    /\ seed_file.content = last_ok.val

\* C9: with 4096-bit keys for holder and issuer, the signature is no longer
\* than the longest plaintext OAEP accepts, and the script prints the proof.
C9_ProofFits ==
    (proof.git_ok /\ proof.holder.bits = 4096 /\ proof.issuer.bits = 4096) =>
        /\ proof.pc = "encrypt" => Len(proof.signature) <= OaepMaxLen(proof.issuer)
        /\ proof.pc = "done" => proof.result = "printed"

\* C10: a /decrypt-seed answered 200 has persisted the seed S that was
\* encrypted; /generate-2fa at time T answers the code of S at step T div 30;
\* /verify-2fa of that code at T answers valid.
C10_EndToEnd ==
    /\ (resp.op = "decrypt" /\ resp.status = 200) =>
           seed_file = File(RequestPlaintext(trace.enc_in))
    /\ (resp.op = "generate" /\ resp.status = 200) =>
           resp.code = CodeOf(last_ok.val, trace.t_code \div 30)
    /\ (resp.op = "verify" /\ resp.status = 200
           /\ trace.code_in = CodeOf(last_ok.val, trace.t_code \div 30)) =>
           resp.valid

\* the upper-case seed was persisted and the code of the current step
\* verified
C10_Witness ==
    /\ resp.op = "verify"
    /\ resp.status = 200
    /\ last_ok = SomeSeed(SeedU)
    /\ seed_file = File(SeedU)
    /\ trace.code_in = CodeOf(last_ok.val, trace.t_code \div 30)
    /\ resp.valid

\* C11: the code and the valid_for of a /generate-2fa response belong to one
\* clock reading t taken while the request was handled: the code is the code
\* of step t div 30 of the seed read and valid_for is 30 - (t mod 30), also
\* when the clock passes a multiple of 30 between the two computations.
C11_SameTimeStep ==
    (resp.op = "generate" /\ resp.status = 200) =>
        \E t \in trace.t_code..trace.t_now :
            /\ resp.valid_for = TOTP_PERIOD - (t % TOTP_PERIOD)
            /\ resp.code = CodeOf(trace.hex_seed, t \div TOTP_PERIOD)

====
